---- MODULE Spec2Model ----
(***************************************************************************)
(* QR attendance flow of learnpulse-pro: the sessions and attendance       *)
(* tables with their row-level-security policies, the teacher dashboard    *)
(* (startSession, stopSession), the student dashboard (fetchTodaySessions, *)
(* handleQRScan) and the attendance view (fetchAttendance,                 *)
(* toggleAttendance), together with the /dashboard page (role dispatch,    *)
(* the mount fetch that ends the loading state, the activity suggestions)  *)
(* and the teacher's QR modal.  Every store request is issued by a handler *)
(* at one instant and executed by the store at a later one; the handler's  *)
(* continuation runs when the store answers.                               *)
(***************************************************************************)
EXTENDS Integers, FiniteSets, Sequences, TLC

\* ------------------------------------------------------------------ bounds
MaxTime == 30
TickMinutes == 15
\* clock steps per behaviour
MaxTicks == 2
MaxRand == 1
MaxInflight == 2
\* handler calls per behaviour of Spec (the redeem flow)
MaxStarts == 2
MaxStops == 1
MaxScans == 2
\* handler calls per behaviour of SpecLifecycle (repeated start and stop)
LifecycleStarts == 2
LifecycleStops == 2
LifecycleScans == 1
\* handler calls per behaviour of SpecFrame (repeated redeem and override)
FrameStarts == 1
FrameStops == 1
FrameScans == 2
FrameToggles == 1
FrameTicks == 1
\* handler calls per behaviour of SpecOverride (the manual override flow)
OverrideStarts == 1
OverrideStops == 1
OverrideScans == 1
MaxToggles == 2

\* handler calls per behaviour of SpecDeleted (override of a deleted row)
DeletedStarts == 1
DeletedStops == 1
DeletedScans == 1
DeletedToggles == 1
DeletedTicks == 1

\* handler calls per behaviour of SpecCalendar (date and time zone changes)
CalendarStarts == 1
CalendarStops == 1
CalendarScans == 1
CalendarTicks == 2

\* handler calls per behaviour of SpecModal (the teacher's QR modal)
ModalStarts == 2
ModalStops == 1
ModalScans == 1
ModalTicks == 1

\* ------------------------------------------------------- program constants
QR_VALID_MINUTES == 30
\* getMinutes and setMinutes count the minutes of the local hour; a time
\* zone leaves daylight saving time by one hour
MINUTES_PER_HOUR == 60

\* ------------------------------------------------------------ static rows
Students == {"u1", "u2"}
Teachers == {"t1", "t2"}
Users == Students \cup Teachers
Sessions == {"s1"}

\* sessions.class_id, sessions.teacher_id and sessions.start_time of the
\* session rows; "t2" is a teacher who owns no session
\* sessions.session_date as a day number: the sessions are dated day 0
session_date == [s \in Sessions |-> 0]
class_id == [s \in Sessions |-> "c1"]
teacher_id == [s \in Sessions |-> "t1"]
start_time == [s \in Sessions |-> 9]
\* rows of class_enrollments as <<class_id, student_id>>
class_enrollments == {<<"c1", "u1">>, <<"c1", "u2">>}

\* ------------------------------------------------------------- null values
NoToken == <<>>
NoTime == -1
NoId == <<>>
NoSession == "none"
NoUser == "nobody"

\* ---------------------------------------------------------------- tokens
\* `session-${Date.now()}-${Math.random().toString(36).substr(2, 9)}`
generateQRCode(dateNow, random) == <<dateNow, random>>

\* a string typed into the scanner that no start has produced
ForeignCode == <<NoTime, 0>>

VARIABLES
  now,             \* wall clock, in minutes
  sessions,        \* table public.sessions: id -> row
  attendance,      \* table public.attendance: set of rows
  todaySessions,   \* StudentDashboard state, per student: id -> list entry
  showQRScanner,   \* StudentDashboard state, per student
  teacherSessions, \* TeacherDashboard todaySessions, per teacher
  attendanceView,  \* AttendanceView state, per teacher
  inflight,        \* store requests issued and not yet answered
  last,            \* outcome (toast) of the handler that finished last
  replaced,        \* history: tokens overwritten by a later start, per session
  cleared,         \* history: tokens cleared by a stop, per session
  started,         \* history: sessions a start has been executed on
  budget,          \* handler calls still allowed, per operation
  calendar,        \* where the modelled minutes lie in the calendar
  showQRCode,      \* TeacherDashboard state, per teacher
  selectedSession, \* TeacherDashboard state, per teacher
  profile,         \* useAuth().profile of the user who opens /dashboard
  dashboard,       \* the component Dashboard renders for that user
  loading,         \* loading state of the rendered dashboard
  suggestions,     \* StudentDashboard state: ids of the displayed list
  activity_suggestions \* table public.activity_suggestions: id -> completed

\* the state of the /dashboard page of the user under study
dashVars == <<profile, dashboard, loading, suggestions, activity_suggestions>>

\* the tables and component state of the attendance flow
flowVars == <<now, sessions, attendance, todaySessions, showQRScanner,
              teacherSessions, attendanceView, replaced, cleared, started,
              budget, calendar, showQRCode, selectedSession>>

vars == <<now, sessions, attendance, todaySessions, showQRScanner,
          teacherSessions, attendanceView, inflight, last, replaced,
          cleared, started, budget, calendar, showQRCode, selectedSession,
          dashVars>>

\* ---------------------------------------------------------------- calendar
\* midnight is the minute at which the UTC date changes from day 0 to day 1,
\* fallBack the minute at which the time zone of the teacher's browser
\* leaves daylight saving time; NoTime: not within the behaviour
PlainCalendar == [midnight |-> NoTime, fallBack |-> NoTime]

\* new Date().toISOString().split('T')[0] at instant t, as a day number
Today(t) ==
  IF calendar.midnight # NoTime /\ t >= calendar.midnight THEN 1 ELSE 0

\* offset of the browser's local time from UTC at instant t
LocalTZA(t) ==
  IF calendar.fallBack # NoTime /\ t < calendar.fallBack
  THEN MINUTES_PER_HOUR ELSE 0

\* LocalTime(t) of ECMAScript: the local time of instant t
LocalTime(t) == t + LocalTZA(t)

\* UTC(t) of ECMAScript: the instant of a local time; a local time that
\* occurs twice (the hour repeated when daylight saving time ends) is read
\* as its earlier instant
UTC(local) ==
  LET instants == {u \in {local - MINUTES_PER_HOUR, local} :
                     LocalTime(u) = local}
  IN CHOOSE u \in instants : \A o \in instants : u <= o

\* d.setMinutes(d.getMinutes() + minutes) on a Date of instant t: the
\* minutes are added to the local time and the result is converted back to
\* an instant
setMinutes(t, minutes) == UTC(LocalTime(t) + minutes)

\* ------------------------------------------------------------ table rows
\* CREATE TABLE public.sessions: defaults of a row nobody has started
NewSession == [is_active |-> FALSE, qr_code |-> NoToken,
               qr_expires_at |-> NoTime, total_students |-> 0,
               present_count |-> 0]

\* entry of a dashboard list for a session that is not in the list
NotListed == [listed |-> FALSE, is_active |-> FALSE, qr_code |-> NoToken,
              present_count |-> 0]

ListEntry(row) == [listed |-> TRUE, is_active |-> row.is_active,
                   qr_code |-> row.qr_code,
                   present_count |-> row.present_count]

\* ----------------------------------------------- row level security rules
\* "Students can view sessions for enrolled classes" /
\* "Teachers can manage own sessions"
SessionsSelectPolicy(uid, s) ==
  \/ <<class_id[s], uid>> \in class_enrollments
  \/ uid = teacher_id[s]

\* "Teachers can manage own sessions" FOR ALL
SessionsUpdatePolicy(uid, s) == uid = teacher_id[s]

\* "Teachers can manage attendance for their sessions" FOR ALL
TeacherManagesAttendance(uid, s) == uid = teacher_id[s]

\* "Students can view own attendance" / "Teachers can view attendance ..."
AttendanceSelectPolicy(uid, r) ==
  \/ uid = r.student_id
  \/ TeacherManagesAttendance(uid, r.session_id)

\* "Students can mark own attendance" FOR INSERT WITH CHECK
AttendanceInsertPolicy(uid, r) ==
  \/ uid = r.student_id
  \/ TeacherManagesAttendance(uid, r.session_id)

\* "Students can update own attendance" FOR UPDATE /
\* "Teachers can manage attendance for their sessions" FOR ALL
AttendanceUpdatePolicy(uid, r) ==
  \/ uid = r.student_id
  \/ TeacherManagesAttendance(uid, r.session_id)

\* ------------------------------------------------------------- requests
\* a store request between the handler's call and the store's answer; the
\* was... fields record what the store held when the handler was called and
\* list is the component state the handler's closure has captured
Request == [op |-> "none", caller |-> NoUser, session |-> NoSession,
            code |-> NoToken, expires |-> NoTime, rid |-> NoId,
            status |-> FALSE, at |-> NoTime, copy |-> 1,
            concurrent |-> FALSE,
            wasReplaced |-> FALSE, wasCleared |-> FALSE,
            wasCurrent |-> FALSE, wasExpired |-> FALSE,
            list |-> {}]

\* requests of one caller for the same row that are in flight together
Twin(a, b) == /\ a.op = b.op /\ a.caller = b.caller
              /\ a.session = b.session /\ a.rid = b.rid

\* a handler sends a request: requests in flight together with a twin are
\* marked concurrent, and two equal requests are told apart by their copy
\* number
Send(req) ==
  LET twins == {o \in inflight : Twin(o, req)}
      r == [req EXCEPT !.concurrent = twins # {}]
      others == {IF o \in twins THEN [o EXCEPT !.concurrent = TRUE] ELSE o :
                   o \in inflight}
  IN IF r \in others THEN others \cup {[r EXCEPT !.copy = 2]}
     ELSE others \cup {r}

CanSend == Cardinality(inflight) < MaxInflight

\* the toast a handler ends with: "ok", "error" or "invalid"; fault records
\* that the store itself failed (network, outage), which the handler cannot
\* tell from a rejected write; noop records that a stop found the row
\* already in the state it writes
NoOutcome == [op |-> "none", caller |-> NoUser, code |-> NoToken,
              result |-> "none", fault |-> FALSE, noop |-> FALSE]

Outcome(req, result, fault) ==
  [op |-> req.op, caller |-> req.caller, code |-> req.code,
   result |-> result, fault |-> fault, noop |-> FALSE]

\* selectedSession of a dashboard: null, or the list entry a button passed
\* (its id and its qr_code, which the modals read)
NoSelection == [session |-> NoSession, qr_code |-> NoToken]

Selection(s, entry) == [session |-> s, qr_code |-> entry.qr_code]

\* useAuth().profile: null, or a row of public.profiles (its role column)
NoProfile == [present |-> FALSE, role |-> "undefined"]

\* the user_role enum
Roles == {"student", "teacher", "admin", "counselor"}

\* what useAuth().profile can be for the authenticated user: null, a row
\* with a role of the enum, or a row whose role is none of them
Profiles ==
  {NoProfile} \cup {[present |-> TRUE, role |-> r] : r \in Roles \cup {"guest"}}

\* the authenticated user who opens /dashboard
DashboardUser == "u1"

\* the component Dashboard has rendered; NoDashboard before it renders
NoDashboard == "none"

\* rows of public.activity_suggestions of the student, suggested for today
Suggestions == {"a1", "a2", "a3"}

\* the /dashboard page is not open
InitUnmounted ==
  /\ profile = NoProfile
  /\ dashboard = NoDashboard
  /\ loading = TRUE
  /\ suggestions = {}
  /\ activity_suggestions = [a \in Suggestions |-> FALSE]

InitState ==
  /\ now = 0
  /\ sessions = [s \in Sessions |-> NewSession]
  /\ attendance = {}
  /\ todaySessions = [u \in Students |-> [s \in Sessions |-> NotListed]]
  /\ showQRScanner = [u \in Students |-> FALSE]
  /\ teacherSessions = [t \in Teachers |-> [s \in Sessions |-> NotListed]]
  /\ attendanceView = [t \in Teachers |->
                         [open |-> FALSE, session |-> NoSession,
                          records |-> {}]]
  /\ inflight = {}
  /\ last = NoOutcome
  /\ replaced = [s \in Sessions |-> {}]
  /\ cleared = [s \in Sessions |-> {}]
  /\ started = {}
  /\ showQRCode = [t \in Teachers |-> FALSE]
  /\ selectedSession = [t \in Teachers |-> NoSelection]

Init ==
  /\ InitState
  /\ InitUnmounted
  /\ calendar = PlainCalendar
  /\ budget = [start |-> MaxStarts, stop |-> MaxStops, scan |-> MaxScans,
               toggle |-> 0, tick |-> MaxTicks]

InitLifecycle ==
  /\ InitState
  /\ InitUnmounted
  /\ calendar = PlainCalendar
  /\ budget = [start |-> LifecycleStarts, stop |-> LifecycleStops,
               scan |-> LifecycleScans, toggle |-> 0,
               tick |-> MaxTicks]

InitFrame ==
  /\ InitState
  /\ InitUnmounted
  /\ calendar = PlainCalendar
  /\ budget = [start |-> FrameStarts, stop |-> FrameStops,
               scan |-> FrameScans, toggle |-> FrameToggles,
               tick |-> FrameTicks]

InitOverride ==
  /\ InitState
  /\ InitUnmounted
  /\ calendar = PlainCalendar
  /\ budget = [start |-> OverrideStarts, stop |-> OverrideStops,
               scan |-> OverrideScans, toggle |-> MaxToggles,
               tick |-> MaxTicks]

\* the behaviour may begin just before the UTC date changes, and in the
\* hour before or after the teacher's time zone leaves daylight saving time
Calendars ==
  [midnight : {NoTime, TickMinutes}, fallBack : {NoTime, 0, TickMinutes}]

InitCalendar ==
  /\ InitState
  /\ InitUnmounted
  /\ calendar \in Calendars
  /\ budget = [start |-> CalendarStarts, stop |-> CalendarStops,
               scan |-> CalendarScans, toggle |-> 0,
               tick |-> CalendarTicks]

\* an authenticated user opens /dashboard; no attendance handler is called
InitDashboard ==
  /\ InitState
  /\ calendar = PlainCalendar
  /\ budget = [start |-> 0, stop |-> 0, scan |-> 0, toggle |-> 0,
               tick |-> 0]
  /\ profile \in Profiles
  /\ dashboard = NoDashboard
  /\ loading = TRUE
  /\ suggestions = {}
  /\ activity_suggestions = [a \in Suggestions |-> FALSE]

InitModal ==
  /\ InitState
  /\ InitUnmounted
  /\ calendar = PlainCalendar
  /\ budget = [start |-> ModalStarts, stop |-> ModalStops,
               scan |-> ModalScans, toggle |-> 0, tick |-> ModalTicks]

InitDeleted ==
  /\ InitState
  /\ InitUnmounted
  /\ calendar = PlainCalendar
  /\ budget = [start |-> DeletedStarts, stop |-> DeletedStops,
               scan |-> DeletedScans, toggle |-> DeletedToggles,
               tick |-> DeletedTicks]

\* ----------------------------------------------------------------- clock
Tick ==
  /\ now + TickMinutes <= MaxTime
  /\ budget.tick > 0
  /\ now' = now + TickMinutes
  /\ budget' = [budget EXCEPT !.tick = @ - 1]
  /\ UNCHANGED <<calendar, showQRCode, selectedSession>>
  /\ UNCHANGED dashVars
  /\ UNCHANGED <<sessions, attendance, todaySessions, showQRScanner,
                 teacherSessions, attendanceView, inflight, last, replaced,
                 cleared, started>>

\* ------------------------------------------------------ TeacherDashboard
\* result of the select in TeacherDashboard.fetchTodaySessions on the
\* table contents rows
TeacherListOf(t, rows) ==
  [s \in Sessions |->
     IF /\ teacher_id[s] = t
        /\ session_date[s] = Today(now)
        /\ SessionsSelectPolicy(t, s)
     THEN ListEntry(rows[s]) ELSE NotListed]

Teacher_fetchTodaySessions(t) ==
  /\ teacherSessions' = [teacherSessions EXCEPT
                           ![t] = TeacherListOf(t, sessions)]
  /\ teacherSessions' # teacherSessions
  /\ UNCHANGED <<calendar, showQRCode, selectedSession>>
  /\ UNCHANGED dashVars
  /\ UNCHANGED <<now, sessions, attendance, todaySessions, showQRScanner,
                 attendanceView, inflight, last, replaced, cleared, started,
                 budget>>

\* startSession up to its await: the token and the expiry are computed in
\* the browser and sent in one update
startSession(t, s) ==
  /\ teacherSessions[t][s].listed
  /\ ~teacherSessions[t][s].is_active
  /\ ~showQRCode[t]
  /\ budget.start > 0
  /\ CanSend
  /\ \E random \in 1..MaxRand :
       inflight' = Send([Request EXCEPT
                           !.op = "start", !.caller = t, !.session = s,
                           !.code = generateQRCode(now, random),
                           !.expires = setMinutes(now, QR_VALID_MINUTES),
                           !.at = now])
  /\ budget' = [budget EXCEPT !.start = @ - 1]
  /\ UNCHANGED <<calendar, showQRCode, selectedSession>>
  /\ UNCHANGED dashVars
  /\ UNCHANGED <<now, sessions, attendance, todaySessions, showQRScanner,
                 teacherSessions, attendanceView, last, replaced, cleared,
                 started>>

\* the update of startSession without its qr_expires_at column
StartUpdate_NoExpiry(rows, uid, s, qrCode, qrExpiresAt) ==
  IF SessionsUpdatePolicy(uid, s)
  THEN [rows EXCEPT ![s] = [@ EXCEPT !.is_active = TRUE,
                                     !.qr_code = qrCode]]
  ELSE rows

\* the update of startSession keeping an expiry the row already has
StartUpdate_KeepExpiry(rows, uid, s, qrCode, qrExpiresAt) ==
  IF SessionsUpdatePolicy(uid, s)
  THEN [rows EXCEPT ![s] = [@ EXCEPT !.is_active = TRUE,
                                     !.qr_code = qrCode,
                                     !.qr_expires_at =
                                        IF @ = NoTime THEN qrExpiresAt
                                        ELSE @]]
  ELSE rows

\* .update({is_active: true, qr_code, qr_expires_at}).eq('id', sessionId)
StartUpdate(rows, uid, s, qrCode, qrExpiresAt) ==
  IF SessionsUpdatePolicy(uid, s)
  THEN [rows EXCEPT ![s] = [@ EXCEPT !.is_active = TRUE,
                                     !.qr_code = qrCode,
                                     !.qr_expires_at = qrExpiresAt]]
  ELSE rows

\* the store executes the update of startSession and the handler resumes
startSessionDone(req) ==
  LET s == req.session
      old == sessions[s]
  IN
  /\ req.op = "start"
  /\ inflight' = inflight \ {req}
  /\ \E error \in BOOLEAN :
       IF error
       THEN /\ last' = Outcome(req, "error", TRUE)
            /\ UNCHANGED <<sessions, teacherSessions, replaced, started>>
       ELSE /\ sessions' = StartUpdate(sessions, req.caller, s, req.code,
                                       req.expires)
            /\ replaced' = IF sessions' # sessions /\ old.qr_code # NoToken
                              /\ old.qr_code # req.code
                           THEN [replaced EXCEPT ![s] = @ \cup {old.qr_code}]
                           ELSE replaced
            /\ started' = IF SessionsUpdatePolicy(req.caller, s)
                          THEN started \cup {s} ELSE started
            /\ teacherSessions' =
                 [teacherSessions EXCEPT
                    ![req.caller] = TeacherListOf(req.caller, sessions')]
            /\ last' = Outcome(req, "ok", FALSE)
  /\ UNCHANGED <<calendar, showQRCode, selectedSession>>
  /\ UNCHANGED dashVars
  /\ UNCHANGED <<now, attendance, todaySessions, showQRScanner,
                 attendanceView, cleared, budget>>

stopSession(t, s) ==
  /\ teacherSessions[t][s].listed
  /\ teacherSessions[t][s].is_active
  /\ ~showQRCode[t]
  /\ budget.stop > 0
  /\ CanSend
  /\ inflight' = Send([Request EXCEPT !.op = "stop", !.caller = t,
                                      !.session = s, !.at = now])
  /\ budget' = [budget EXCEPT !.stop = @ - 1]
  /\ UNCHANGED <<calendar, showQRCode, selectedSession>>
  /\ UNCHANGED dashVars
  /\ UNCHANGED <<now, sessions, attendance, todaySessions, showQRScanner,
                 teacherSessions, attendanceView, last, replaced, cleared,
                 started>>

\* a stop that flips is_active instead of setting it to false
StopUpdate_Flips(rows, uid, s) ==
  IF SessionsUpdatePolicy(uid, s)
  THEN [rows EXCEPT ![s] = [@ EXCEPT !.is_active = ~@,
                                     !.qr_code = NoToken,
                                     !.qr_expires_at = NoTime]]
  ELSE rows

\* a stop that takes one off present_count
StopUpdate_Decrements(rows, uid, s) ==
  IF SessionsUpdatePolicy(uid, s)
  THEN [rows EXCEPT ![s] = [@ EXCEPT !.is_active = FALSE,
                                     !.qr_code = NoToken,
                                     !.qr_expires_at = NoTime,
                                     !.present_count = @ - 1]]
  ELSE rows

\* a stop that leaves the token in the row
StopUpdate_KeepsToken(rows, uid, s) ==
  IF SessionsUpdatePolicy(uid, s)
  THEN [rows EXCEPT ![s] = [@ EXCEPT !.is_active = FALSE,
                                     !.qr_expires_at = NoTime]]
  ELSE rows

\* .update({is_active: false, qr_code: null, qr_expires_at: null})
\*   .eq('id', sessionId)
StopUpdate(rows, uid, s) ==
  IF SessionsUpdatePolicy(uid, s)
  THEN [rows EXCEPT ![s] = [@ EXCEPT !.is_active = FALSE,
                                     !.qr_code = NoToken,
                                     !.qr_expires_at = NoTime]]
  ELSE rows

\* a stop whose update also deletes the attendance rows of the session
stopSessionDone_DropsAttendance(req) ==
  LET s == req.session
      old == sessions[s]
  IN
  /\ req.op = "stop"
  /\ inflight' = inflight \ {req}
  /\ \E error \in BOOLEAN :
       IF error
       THEN /\ last' = Outcome(req, "error", TRUE)
            /\ UNCHANGED <<sessions, teacherSessions, cleared, attendance,
                           showQRCode>>
       ELSE /\ sessions' = StopUpdate(sessions, req.caller, s)
            /\ showQRCode' = [showQRCode EXCEPT ![req.caller] = FALSE]
            /\ attendance' = {r \in attendance : r.session_id # s}
            /\ cleared' = IF sessions' # sessions /\ old.qr_code # NoToken
                          THEN [cleared EXCEPT ![s] = @ \cup {old.qr_code}]
                          ELSE cleared
            /\ teacherSessions' =
                 [teacherSessions EXCEPT
                    ![req.caller] = TeacherListOf(req.caller, sessions')]
            /\ last' = [Outcome(req, "ok", FALSE) EXCEPT
                          !.noop = (sessions' = sessions)]
  /\ UNCHANGED <<calendar, selectedSession>>
  /\ UNCHANGED dashVars
  /\ UNCHANGED <<now, todaySessions, showQRScanner,
                 attendanceView, replaced, started, budget>>

\* the store executes the update of stopSession and the handler resumes
stopSessionDone(req) ==
  LET s == req.session
      old == sessions[s]
  IN
  /\ req.op = "stop"
  /\ inflight' = inflight \ {req}
  /\ \E error \in BOOLEAN :
       IF error
       THEN /\ last' = Outcome(req, "error", TRUE)
            /\ UNCHANGED <<sessions, teacherSessions, cleared, showQRCode>>
       ELSE /\ sessions' = StopUpdate(sessions, req.caller, s)
            /\ showQRCode' = [showQRCode EXCEPT ![req.caller] = FALSE]
            /\ cleared' = IF sessions' # sessions /\ old.qr_code # NoToken
                          THEN [cleared EXCEPT ![s] = @ \cup {old.qr_code}]
                          ELSE cleared
            /\ teacherSessions' =
                 [teacherSessions EXCEPT
                    ![req.caller] = TeacherListOf(req.caller, sessions')]
            /\ last' = [Outcome(req, "ok", FALSE) EXCEPT
                          !.noop = (sessions' = sessions)]
  /\ UNCHANGED <<calendar, selectedSession>>
  /\ UNCHANGED dashVars
  /\ UNCHANGED <<now, attendance, todaySessions, showQRScanner,
                 attendanceView, replaced, started, budget>>

\* showSessionQR: setSelectedSession(session), setShowQRCode(true); the QR
\* button is rendered for the active sessions of the list
showSessionQR(t, s) ==
  /\ teacherSessions[t][s].listed
  /\ teacherSessions[t][s].is_active
  /\ ~showQRCode[t]
  /\ ~attendanceView[t].open
  /\ selectedSession' = [selectedSession EXCEPT
                           ![t] = Selection(s, teacherSessions[t][s])]
  /\ showQRCode' = [showQRCode EXCEPT ![t] = TRUE]
  /\ UNCHANGED <<now, sessions, attendance, todaySessions, showQRScanner,
                 teacherSessions, attendanceView, inflight, last, replaced,
                 cleared, started, budget, calendar>>
  /\ UNCHANGED dashVars

\* onClose of the QR modal: setShowQRCode(false), setSelectedSession(null)
closeQRCode(t) ==
  /\ showQRCode[t]
  /\ showQRCode' = [showQRCode EXCEPT ![t] = FALSE]
  /\ selectedSession' = [selectedSession EXCEPT ![t] = NoSelection]
  /\ UNCHANGED <<now, sessions, attendance, todaySessions, showQRScanner,
                 teacherSessions, attendanceView, inflight, last, replaced,
                 cleared, started, budget, calendar>>
  /\ UNCHANGED dashVars

\* the code the QR modal displays: QRCodeDisplay is rendered when showQRCode
\* && selectedSession && selectedSession.qr_code, with that qr_code
DisplayedCode(t) ==
  IF showQRCode[t] /\ selectedSession[t] # NoSelection
  THEN selectedSession[t].qr_code ELSE NoToken

\* ------------------------------------------------------ StudentDashboard
\* result of the select in StudentDashboard.fetchTodaySessions: today's
\* sessions of the classes the student is enrolled in
StudentList(u) ==
  [s \in Sessions |->
     IF /\ session_date[s] = Today(now)
        /\ <<class_id[s], u>> \in class_enrollments
        /\ SessionsSelectPolicy(u, s)
     THEN ListEntry(sessions[s]) ELSE NotListed]

Student_fetchTodaySessions(u) ==
  /\ todaySessions' = [todaySessions EXCEPT ![u] = StudentList(u)]
  /\ todaySessions' # todaySessions
  /\ UNCHANGED <<calendar, showQRCode, selectedSession>>
  /\ UNCHANGED dashVars
  /\ UNCHANGED <<now, sessions, attendance, showQRScanner, teacherSessions,
                 attendanceView, inflight, last, replaced, cleared, started,
                 budget>>

\* the "Scan QR for Attendance" button and the scanner's onClose
setShowQRScanner(u, open) ==
  /\ showQRScanner[u] # open
  /\ showQRScanner' = [showQRScanner EXCEPT ![u] = open]
  /\ UNCHANGED <<calendar, showQRCode, selectedSession>>
  /\ UNCHANGED dashVars
  /\ UNCHANGED <<now, sessions, attendance, todaySessions, teacherSessions,
                 attendanceView, inflight, last, replaced, cleared, started,
                 budget>>

\* find with the predicate negated: it returns a session the code does not
\* match
FindSession_Negated(list, qrCode) ==
  LET matching == {s \in Sessions : /\ list[s].listed
                                    /\ ~(/\ list[s].qr_code = qrCode
                                         /\ list[s].is_active)}
  IN IF matching = {} THEN NoSession
     ELSE CHOOSE s \in matching :
            \A o \in matching : start_time[s] <= start_time[o]

\* todaySessions.find(s => s.qr_code === qrCode && s.is_active); the list
\* is ordered by start_time and find returns the first match
FindSession(list, qrCode) ==
  LET matching == {s \in Sessions : /\ list[s].listed
                                    /\ list[s].qr_code = qrCode
                                    /\ list[s].is_active}
  IN IF matching = {} THEN NoSession
     ELSE CHOOSE s \in matching :
            \A o \in matching : start_time[s] <= start_time[o]

\* every token a start has ever stored
IssuedTokens ==
  UNION {replaced[s] \cup cleared[s] \cup {sessions[s].qr_code} :
           s \in Sessions} \ {NoToken}

\* what can be typed into the scanner: an issued token, a token a start
\* has generated and not stored yet, or a string that is no token
CandidateCodes ==
  IssuedTokens \cup {ForeignCode}
    \cup {req.code : req \in {x \in inflight : x.op = "start"}}

\* sessions whose stored current token is qrCode
CurrentOf(qrCode) ==
  {s \in Sessions : sessions[s].is_active /\ sessions[s].qr_code = qrCode}

\* handleQRScan up to its await
handleQRScan(u, qrCode) ==
  LET session == FindSession(todaySessions[u], qrCode)
      req == [Request EXCEPT
                !.op = "upsert", !.caller = u, !.session = session,
                !.code = qrCode, !.at = now,
                !.wasReplaced = \E s \in Sessions : qrCode \in replaced[s],
                !.wasCleared = \E s \in Sessions : qrCode \in cleared[s],
                !.wasCurrent = CurrentOf(qrCode) # {},
                !.wasExpired = /\ CurrentOf(qrCode) # {}
                               /\ \A s \in CurrentOf(qrCode) :
                                     now >= sessions[s].qr_expires_at]
  IN
  /\ showQRScanner[u]
  /\ budget.scan > 0
  /\ CanSend
  /\ budget' = [budget EXCEPT !.scan = @ - 1]
  /\ IF session = NoSession
     THEN /\ last' = Outcome(req, "invalid", FALSE)
          /\ UNCHANGED inflight
     ELSE /\ inflight' = Send(req)
          /\ UNCHANGED last
  /\ UNCHANGED <<calendar, showQRCode, selectedSession>>
  /\ UNCHANGED dashVars
  /\ UNCHANGED <<now, sessions, attendance, todaySessions, showQRScanner,
                 teacherSessions, attendanceView, replaced, cleared, started>>

\* ------------------------------------------------------ attendance table
\* gen_random_uuid(): an id no row has
FreshId(rows, payload) ==
  <<payload.session_id, payload.student_id,
    1 + Cardinality({r \in rows : /\ r.session_id = payload.session_id
                                  /\ r.student_id = payload.student_id})>>

\* a row of public.attendance with the column defaults filled in
AttendanceRow(id, payload, createdAt) ==
  [id |-> id, session_id |-> payload.session_id,
   student_id |-> payload.student_id, is_present |-> payload.is_present,
   method |-> payload.method, marked_at |-> payload.marked_at,
   latitude |-> NoTime, longitude |-> NoTime, notes |-> "",
   created_at |-> createdAt]

\* a unique key on session_id alone
UniqueViolation_SessionOnly(rows, row) ==
  \E r \in rows : /\ r.session_id = row.session_id
                  /\ r.id # row.id

\* UNIQUE(session_id, student_id)
UniqueViolation(rows, row) ==
  \E r \in rows : /\ r.session_id = row.session_id
                  /\ r.student_id = row.student_id
                  /\ r.id # row.id

\* an upsert that resolves conflicts on session_id: it overwrites the row
\* the session already has, whichever student it belongs to
Upsert_OnConflictSession(rows, uid, payload, createdAt) ==
  LET hit == {r \in rows : r.session_id = payload.session_id}
      row == AttendanceRow(FreshId(rows, payload), payload, createdAt)
  IN IF hit = {}
     THEN [error |-> FALSE, rows |-> rows \cup {row}]
     ELSE [error |-> FALSE,
           rows |-> {IF r \in hit
                     THEN [r EXCEPT !.is_present = payload.is_present,
                                    !.method = payload.method,
                                    !.marked_at = payload.marked_at]
                     ELSE r : r \in rows}]

\* .upsert(payload) without onConflict: INSERT ... ON CONFLICT (id) DO
\* UPDATE.  The payload carries no id, so the row gets a fresh one, the
\* primary key never conflicts, and UNIQUE(session_id, student_id) rejects
\* a second row of the pair.
Upsert(rows, uid, payload, createdAt) ==
  LET row == AttendanceRow(FreshId(rows, payload), payload, createdAt)
  IN IF ~AttendanceInsertPolicy(uid, row) \/ UniqueViolation(rows, row)
     THEN [error |-> TRUE, rows |-> rows]
     ELSE [error |-> FALSE, rows |-> rows \cup {row}]

\* handleQRScan without `if (error) throw error`: a failed upsert ends with
\* the success toast
handleQRScanDone_SwallowsError(req) ==
  LET u == req.caller
      payload == [session_id |-> req.session, student_id |-> u,
                  is_present |-> TRUE, method |-> "qr",
                  marked_at |-> req.at]
      res == Upsert(attendance, u, payload, now)
  IN
  /\ req.op = "upsert"
  /\ inflight' = inflight \ {req}
  /\ \E error \in BOOLEAN :
       /\ attendance' = IF error \/ res.error THEN attendance ELSE res.rows
       /\ showQRScanner' = [showQRScanner EXCEPT ![u] = FALSE]
       /\ todaySessions' = [todaySessions EXCEPT ![u] = StudentList(u)]
       /\ last' = Outcome(req, "ok", error)
  /\ UNCHANGED <<calendar, showQRCode, selectedSession>>
  /\ UNCHANGED dashVars
  /\ UNCHANGED <<now, sessions, teacherSessions, attendanceView, replaced,
                 cleared, started, budget>>

\* the store executes the upsert of handleQRScan and the handler resumes
handleQRScanDone(req) ==
  LET u == req.caller
      payload == [session_id |-> req.session, student_id |-> u,
                  is_present |-> TRUE, method |-> "qr",
                  marked_at |-> req.at]
      res == Upsert(attendance, u, payload, now)
  IN
  /\ req.op = "upsert"
  /\ inflight' = inflight \ {req}
  /\ \E error \in BOOLEAN :
       IF error \/ res.error
       THEN /\ last' = Outcome(req, "error", error)
            /\ UNCHANGED <<attendance, showQRScanner, todaySessions>>
       ELSE /\ attendance' = res.rows
            /\ showQRScanner' = [showQRScanner EXCEPT ![u] = FALSE]
            /\ todaySessions' = [todaySessions EXCEPT ![u] = StudentList(u)]
            /\ last' = Outcome(req, "ok", FALSE)
  /\ UNCHANGED <<calendar, showQRCode, selectedSession>>
  /\ UNCHANGED dashVars
  /\ UNCHANGED <<now, sessions, teacherSessions, attendanceView, replaced,
                 cleared, started, budget>>

\* -------------------------------------------------------- AttendanceView
\* what AttendanceView keeps of a fetched row (interface AttendanceRecord;
\* the fields its handlers read)
ViewRecord(r) == [id |-> r.id, student_id |-> r.student_id,
                  is_present |-> r.is_present]

\* result of the select in fetchAttendance on the table contents rows
fetchAttendance(uid, s, rows) ==
  {ViewRecord(r) : r \in {x \in rows : /\ x.session_id = s
                                       /\ AttendanceSelectPolicy(uid, x)}}

ClosedView == [open |-> FALSE, session |-> NoSession, records |-> {}]

\* viewAttendance: setSelectedSession(session), setShowAttendance(true);
\* the modal mounts and its effect fetches the records
viewAttendance(t, s) ==
  /\ teacherSessions[t][s].listed
  /\ ~attendanceView[t].open
  /\ ~showQRCode[t]
  /\ attendanceView' = [attendanceView EXCEPT ![t] =
                          [open |-> TRUE, session |-> s,
                           records |-> fetchAttendance(t, s, attendance)]]
  /\ selectedSession' = [selectedSession EXCEPT
                           ![t] = Selection(s, teacherSessions[t][s])]
  /\ UNCHANGED <<calendar, showQRCode>>
  /\ UNCHANGED dashVars
  /\ UNCHANGED <<now, sessions, attendance, todaySessions, showQRScanner,
                 teacherSessions, inflight, last, replaced, cleared, started,
                 budget>>

\* onClose of the modal: setShowAttendance(false), setSelectedSession(null),
\* fetchTodaySessions()
closeAttendance(t) ==
  /\ attendanceView[t].open
  /\ attendanceView' = [attendanceView EXCEPT ![t] = ClosedView]
  /\ selectedSession' = [selectedSession EXCEPT ![t] = NoSelection]
  /\ teacherSessions' = [teacherSessions EXCEPT
                           ![t] = TeacherListOf(t, sessions)]
  /\ UNCHANGED <<calendar, showQRCode>>
  /\ UNCHANGED dashVars
  /\ UNCHANGED <<now, sessions, attendance, todaySessions, showQRScanner,
                 inflight, last, replaced, cleared, started, budget>>

\* the (record.id, record.is_present) pairs a caller can pass to
\* toggleAttendance: a teacher with sessions clicks a row of the open view;
\* a student sends the same update for a row the select policy shows them;
\* a teacher without sessions sends it with the id of any stored row
ToggleChoices(caller) ==
  IF \E s \in Sessions : teacher_id[s] = caller
  THEN {<<r.id, r.is_present>> : r \in attendanceView[caller].records}
  ELSE IF caller \in Students
  THEN {<<r.id, b>> : r \in {x \in attendance : x.student_id = caller},
                      b \in BOOLEAN}
  ELSE {<<r.id, b>> : r \in attendance, b \in BOOLEAN}

\* toggleAttendance up to its await
toggleAttendance(caller, recordId, currentStatus) ==
  /\ <<recordId, currentStatus>> \in ToggleChoices(caller)
  /\ budget.toggle > 0
  /\ CanSend
  /\ inflight' = Send([Request EXCEPT !.op = "toggle", !.caller = caller,
                                      !.rid = recordId,
                                      !.status = currentStatus, !.at = now])
  /\ budget' = [budget EXCEPT !.toggle = @ - 1]
  /\ UNCHANGED <<calendar, showQRCode, selectedSession>>
  /\ UNCHANGED dashVars
  /\ UNCHANGED <<now, sessions, attendance, todaySessions, showQRScanner,
                 teacherSessions, attendanceView, last, replaced, cleared,
                 started>>

\* an override that also stamps created_at
ToggleUpdate_StampsCreated(rows, uid, recordId, currentStatus, markedAt) ==
  {IF r.id = recordId /\ AttendanceUpdatePolicy(uid, r)
   THEN [r EXCEPT !.is_present = ~currentStatus, !.method = "manual",
                  !.marked_at = markedAt, !.created_at = markedAt]
   ELSE r : r \in rows}

\* .update({is_present: !currentStatus, method: 'manual', marked_at})
\*   .eq('id', recordId), on the rows the caller's policies let it update
ToggleUpdate(rows, uid, recordId, currentStatus, markedAt) ==
  {IF r.id = recordId /\ AttendanceUpdatePolicy(uid, r)
   THEN [r EXCEPT !.is_present = ~currentStatus, !.method = "manual",
                  !.marked_at = markedAt]
   ELSE r : r \in rows}

\* the store executes the update of toggleAttendance and the handler resumes
toggleAttendanceDone(req) ==
  LET c == req.caller IN
  /\ req.op = "toggle"
  /\ inflight' = inflight \ {req}
  /\ \E error \in BOOLEAN :
       IF error
       THEN /\ last' = Outcome(req, "error", TRUE)
            /\ UNCHANGED <<attendance, attendanceView>>
       ELSE /\ attendance' = ToggleUpdate(attendance, c, req.rid,
                                          req.status, req.at)
            /\ attendanceView' =
                 IF c \in Teachers /\ attendanceView[c].open
                 THEN [attendanceView EXCEPT ![c].records =
                         fetchAttendance(c, attendanceView[c].session,
                                         attendance')]
                 ELSE attendanceView
            /\ last' = Outcome(req, "ok", FALSE)
  /\ UNCHANGED <<calendar, showQRCode, selectedSession>>
  /\ UNCHANGED dashVars
  /\ UNCHANGED <<now, sessions, todaySessions, showQRScanner,
                 teacherSessions, replaced, cleared, started, budget>>

\* -------------------------------------------------------------- Dashboard
\* renderDashboard with the 'counselor' case missing
renderDashboard_NoCounselor(p) ==
  CASE p.role = "student" -> "StudentDashboard"
    [] p.role = "teacher" -> "TeacherDashboard"
    [] p.role = "admin" -> "AdminDashboard"
    [] OTHER -> "StudentDashboard"

\* renderDashboard: switch (profile?.role)
renderDashboard(p) ==
  CASE p.role = "student" -> "StudentDashboard"
    [] p.role = "teacher" -> "TeacherDashboard"
    [] p.role \in {"admin", "counselor"} -> "AdminDashboard"
    [] OTHER -> "StudentDashboard"

\* Dashboard renders once useAuth() has a user and is not loading: the role
\* dashboard mounts with loading = true and its effect calls the fetch that
\* ends with setLoading(false), if (profile)
Dashboard ==
  /\ dashboard = NoDashboard
  /\ dashboard' = renderDashboard(profile)
  /\ loading' = TRUE
  /\ inflight' = IF profile.present
                 THEN Send([Request EXCEPT !.op = "fetch",
                                           !.caller = DashboardUser,
                                           !.at = now])
                 ELSE inflight
  /\ UNCHANGED <<profile, suggestions, activity_suggestions, last>>
  /\ UNCHANGED flowVars

\* the select of fetchActivitySuggestions: the user's suggestions that are
\* not completed
SuggestionList(rows) == {a \in Suggestions : ~rows[a]}

\* the store answers fetchActivitySuggestions of the StudentDashboard:
\* setSuggestions(data) unless it failed, and finally setLoading(false)
fetchActivitySuggestionsDone(req) ==
  /\ req.op = "fetch"
  /\ dashboard = "StudentDashboard"
  /\ inflight' = inflight \ {req}
  /\ \E error \in BOOLEAN :
       suggestions' = IF error THEN suggestions
                      ELSE SuggestionList(activity_suggestions)
  /\ loading' = FALSE
  /\ UNCHANGED <<profile, dashboard, activity_suggestions, last>>
  /\ UNCHANGED flowVars

\* the store answers fetchTodaySessions of the TeacherDashboard or
\* fetchDashboardData of the AdminDashboard: finally setLoading(false)
fetchDashboardDataDone(req) ==
  /\ req.op = "fetch"
  /\ dashboard \in {"TeacherDashboard", "AdminDashboard"}
  /\ inflight' = inflight \ {req}
  /\ loading' = FALSE
  /\ UNCHANGED <<profile, dashboard, suggestions, activity_suggestions, last>>
  /\ UNCHANGED flowVars

\* markActivityCompleted up to its await: the button of a displayed
\* suggestion; the handler keeps the suggestions of the render it was
\* created in
markActivityCompleted(suggestionId) ==
  /\ dashboard = "StudentDashboard"
  /\ ~loading
  /\ suggestionId \in suggestions
  /\ CanSend
  /\ inflight' = Send([Request EXCEPT !.op = "complete",
                                      !.caller = DashboardUser,
                                      !.rid = suggestionId,
                                      !.list = suggestions, !.at = now])
  /\ UNCHANGED <<last>>
  /\ UNCHANGED dashVars
  /\ UNCHANGED flowVars

\* the store executes the update of markActivityCompleted and the handler
\* resumes: setSuggestions(suggestions.filter(s => s.id !== suggestionId))
\* with the suggestions it has captured
markActivityCompletedDone(req) ==
  /\ req.op = "complete"
  /\ inflight' = inflight \ {req}
  /\ \E error \in BOOLEAN :
       IF error
       THEN /\ last' = Outcome(req, "error", TRUE)
            /\ UNCHANGED <<suggestions, activity_suggestions>>
       ELSE /\ activity_suggestions' =
                 [activity_suggestions EXCEPT ![req.rid] = TRUE]
            /\ suggestions' = req.list \ {req.rid}
            /\ last' = Outcome(req, "ok", FALSE)
  /\ UNCHANGED <<profile, dashboard, loading>>
  /\ UNCHANGED flowVars

\* ids a toggle request can name: of the stored rows and of the rows an
\* attendance view displays
RecordIds ==
  {r.id : r \in attendance}
    \cup UNION {{r.id : r \in attendanceView[t].records} : t \in Teachers}

\* a row of public.attendance is deleted outside the dashboards: by the
\* session's teacher ("Teachers can manage attendance for their sessions"
\* FOR ALL) or ON DELETE CASCADE with its student
DeleteAttendance(t, r) ==
  /\ r \in attendance
  /\ TeacherManagesAttendance(t, r.session_id)
  /\ attendance' = attendance \ {r}
  /\ UNCHANGED <<now, sessions, todaySessions, showQRScanner,
                 teacherSessions, attendanceView, inflight, last, replaced,
                 cleared, started, budget, calendar, showQRCode,
                 selectedSession>>
  /\ UNCHANGED dashVars

NextRedeem ==
  \/ Tick
  \/ \E t \in Teachers : Teacher_fetchTodaySessions(t)
  \/ \E t \in Teachers, s \in Sessions : startSession(t, s)
  \/ \E req \in inflight : startSessionDone(req)
  \/ \E t \in Teachers, s \in Sessions : stopSession(t, s)
  \/ \E req \in inflight : stopSessionDone(req)
  \/ \E u \in Students : Student_fetchTodaySessions(u)
  \/ \E u \in Students, open \in BOOLEAN : setShowQRScanner(u, open)
  \/ \E u \in Students, qrCode \in CandidateCodes : handleQRScan(u, qrCode)
  \/ \E req \in inflight : handleQRScanDone(req)

NextOverride ==
  \/ NextRedeem
  \/ \E t \in Teachers, s \in Sessions : viewAttendance(t, s)
  \/ \E t \in Teachers : closeAttendance(t)
  \/ \E caller \in Users, recordId \in RecordIds, currentStatus \in BOOLEAN :
       toggleAttendance(caller, recordId, currentStatus)
  \/ \E req \in inflight : toggleAttendanceDone(req)

NextDashboard ==
  \/ Dashboard
  \/ \E req \in inflight : fetchActivitySuggestionsDone(req)
  \/ \E req \in inflight : fetchDashboardDataDone(req)
  \/ \E suggestionId \in Suggestions : markActivityCompleted(suggestionId)
  \/ \E req \in inflight : markActivityCompletedDone(req)

NextModal ==
  \/ NextRedeem
  \/ \E t \in Teachers, s \in Sessions : showSessionQR(t, s)
  \/ \E t \in Teachers : closeQRCode(t)

NextDeleted ==
  \/ NextOverride
  \/ \E t \in Teachers, r \in attendance : DeleteAttendance(t, r)

\* the redeem flow: start, stop, the students' lists and scans
Spec == Init /\ [][NextRedeem]_vars

\* the redeem flow with more starts and stops and fewer scans
SpecLifecycle == InitLifecycle /\ [][NextRedeem]_vars

\* repeated redeems followed by a manual override
SpecFrame == InitFrame /\ [][NextOverride]_vars

\* the redeem flow with the attendance view and the manual override
SpecOverride == InitOverride /\ [][NextOverride]_vars

\* the manual override while rows of the attendance table are deleted
SpecDeleted == InitDeleted /\ [][NextDeleted]_vars

\* the redeem flow around a change of date or of the time zone offset
SpecCalendar == InitCalendar /\ [][NextRedeem]_vars

\* the redeem flow with the teacher's QR modal
SpecModal == InitModal /\ [][NextModal]_vars

\* the /dashboard page: role dispatch, the mount fetch, the suggestions
SpecDashboard == InitDashboard /\ [][NextDashboard]_vars

\* the /dashboard page when the page renders and the store answers every
\* request it gets
SpecDashboardFair ==
  /\ SpecDashboard
  /\ WF_vars(Dashboard)
  /\ WF_vars(\E req \in inflight : fetchActivitySuggestionsDone(req))
  /\ WF_vars(\E req \in inflight : fetchDashboardDataDone(req))
  /\ WF_vars(\E req \in inflight : markActivityCompletedDone(req))

\* ------------------------------------------------------------ the claims
\* the requests the store answers in a step (a step that sends a request
\* removes none)
Answered ==
  IF Cardinality(inflight') < Cardinality(inflight)
  THEN inflight \ inflight' ELSE {}

\* the attendance rows of a (session, student) pair
PairRows(rows, s, u) ==
  {r \in rows : r.session_id = s /\ r.student_id = u}

\* C1: after a start exactly one token is the session's current token, and
\* a redeem that presents a token which a later start has replaced is
\* rejected and writes no attendance row, whenever the student's list was
\* fetched
C1_ReplacedTokenRejected ==
  [][\A req \in Answered :
       /\ (req.op = "start" /\ last'.result = "ok") =>
            /\ sessions'[req.session].is_active
            /\ sessions'[req.session].qr_code = req.code
       /\ (req.op = "upsert" /\ req.wasReplaced /\ ~req.wasCurrent) =>
            /\ attendance' = attendance
            /\ last'.result # "ok"]_vars

\* C2: a redeem that presents the current token of an active session at or
\* after the token's expiry is rejected and writes no attendance row
C2_ExpiredTokenRejected ==
  [][\A req \in Answered :
       (req.op = "upsert" /\ req.wasCurrent /\ req.wasExpired) =>
         /\ attendance' = attendance
         /\ last'.result # "ok"]_vars

\* C3: once a stop has cleared a token, every later redeem that presents it
\* is rejected and writes no attendance row, whenever the student's list was
\* fetched
C3_ClearedTokenRejected ==
  [][\A req \in Answered :
       (req.op = "upsert" /\ req.wasCleared /\ ~req.wasCurrent) =>
         /\ attendance' = attendance
         /\ last'.result # "ok"]_vars

\* C4: a session that was never started (is_active = false, qr_code = null)
\* is matched by no candidate code: no redeem reaches the store for it and
\* it has no attendance row
C4_NeverStartedRejects ==
  \A s \in Sessions \ started :
    /\ sessions[s] = NewSession
    /\ \A r \in attendance : r.session_id # s
    /\ \A req \in inflight : req.op = "upsert" => req.session # s

\* a student whose list holds the never started session presented a
\* generated token and got the invalid-code toast
C4_Witness ==
  /\ last.op = "upsert"
  /\ last.result = "invalid"
  /\ last.code # ForeignCode
  /\ "s1" \notin started
  /\ todaySessions[last.caller]["s1"].listed

\* C5: a repeated redeem of a (session, subject) pair with the same valid
\* token succeeds and leaves exactly one row for the pair, whose marked_at
\* is the time of that latest call
C5_RepeatRedeemUpdates ==
  [][\A req \in Answered :
       (/\ req.op = "upsert" /\ req.wasCurrent /\ ~req.wasExpired
        /\ ~last'.fault
        /\ PairRows(attendance, req.session, req.caller) # {}) =>
         /\ last'.result = "ok"
         /\ Cardinality(PairRows(attendance', req.session, req.caller)) = 1
         /\ \A r \in PairRows(attendance', req.session, req.caller) :
              r.marked_at = req.at /\ r.is_present]_vars

\* C6: the attendance table never holds two rows of one (session, student)
\* pair, and of two redeems of a pair that run concurrently the later one
\* updates the stored row in place and is not rejected
C6_ConcurrentRedeemUpdates ==
  [][/\ \A s \in Sessions, u \in Students :
          Cardinality(PairRows(attendance', s, u)) <= 1
     /\ \A req \in Answered :
          (/\ req.op = "upsert" /\ req.concurrent /\ ~last'.fault
           /\ PairRows(attendance, req.session, req.caller) # {}) =>
            /\ last'.result = "ok"
            /\ \A r \in PairRows(attendance, req.session, req.caller) :
                 \E n \in attendance' : /\ n.id = r.id
                                        /\ n.marked_at = req.at]_vars

\* C7: present_count of a session equals the number of distinct students
\* with a successful redeem of that session
C7_PresentCountMatches ==
  \A s \in Sessions :
    sessions[s].present_count =
      Cardinality({r.student_id : r \in {x \in attendance : x.session_id = s}})

\* C8: the update of toggleAttendance changes a row only for the owner of
\* the row's session; for every other caller, the row's student included,
\* the row is left as it was
C8_OnlyOwnerOverrides ==
  [][\A req \in Answered : \A r \in attendance :
       (/\ req.op = "toggle" /\ r.id = req.rid
        /\ req.caller # teacher_id[r.session_id]) =>
         attendance' = attendance]_vars

\* C9: an override by the session owner succeeds in every session state and
\* leaves the row with method manual, marked_at the override time and
\* is_present flipped relative to the value stored just before it
C9_OwnerOverrideFlips ==
  [][\A req \in Answered : \A r \in attendance :
       (/\ req.op = "toggle" /\ r.id = req.rid
        /\ req.caller = teacher_id[r.session_id]
        /\ ~last'.fault) =>
         /\ last'.result = "ok"
         /\ \E n \in attendance' : /\ n.id = r.id
                                   /\ n.method = "manual"
                                   /\ n.marked_at = req.at
                                   /\ n.is_present = ~r.is_present]_vars

\* C10: the owner can override every subject of the session, one without
\* an attendance row included: the owner's up-to-date attendance view
\* offers a row to toggle for every student enrolled in the session's class
C10_EverySubjectOverridable ==
  \A t \in Teachers :
    LET v == attendanceView[t] IN
    (/\ v.open
     /\ teacher_id[v.session] = t
     /\ v.records = fetchAttendance(t, v.session, attendance)) =>
      \A u \in Students :
        <<class_id[v.session], u>> \in class_enrollments =>
          \E r \in v.records : r.student_id = u

\* C11: in every state of every session the token (qr_code) and the expiry
\* (qr_expires_at) are both present or both absent
C11_TokenAndExpiryTogether ==
  \A s \in Sessions :
    (sessions[s].qr_code = NoToken) <=> (sessions[s].qr_expires_at = NoTime)

\* a session that was started and then stopped: both columns were set by
\* the start and are cleared again
C11_Witness ==
  /\ last.op = "stop"
  /\ last.result = "ok"
  /\ cleared["s1"] # {}
  /\ sessions["s1"].qr_code = NoToken
  /\ sessions["s1"].qr_expires_at = NoTime

\* C12: each start that the store executes, one that ran together with
\* another start of the session included, leaves its own token and its own
\* expiry in the row: the stored token is the last writer's and the stored
\* expiry is the one the same call computed
C12_LastStartWinsTokenAndExpiry ==
  [][\A req \in Answered :
       (req.op = "start" /\ last'.result = "ok") =>
         /\ sessions'[req.session].is_active
         /\ sessions'[req.session].qr_code = req.code
         /\ sessions'[req.session].qr_expires_at = req.expires]_vars

\* two starts of s1 ran together (the second replaced the first one's token
\* with no stop between them) and the row holds the second one's token and
\* expiry
C12_Witness ==
  /\ last.op = "start"
  /\ last.result = "ok"
  /\ replaced["s1"] # {}
  /\ cleared["s1"] = {}
  /\ \A req \in inflight : req.op # "start"
  /\ sessions["s1"].qr_code = last.code
  /\ sessions["s1"].qr_code \notin replaced["s1"]

\* C13: redeems of distinct students with the current unexpired token of
\* one active session may interleave in any order: each student's attempt
\* succeeds and leaves one row with is_present = true for that student, and
\* no attempt changes or removes a row that was stored before it
C13_DistinctSubjectsAllSucceed ==
  [][\A req \in Answered :
       (/\ req.op = "upsert" /\ req.wasCurrent /\ ~req.wasExpired
        /\ ~last'.fault
        /\ PairRows(attendance, req.session, req.caller) = {}) =>
         /\ last'.result = "ok"
         /\ attendance \subseteq attendance'
         /\ Cardinality(PairRows(attendance', req.session, req.caller)) = 1
         /\ \A r \in PairRows(attendance', req.session, req.caller) :
              r.is_present]_vars

\* two students hold a row of s1, and the one who scanned first was stored
\* last: that attempt was in flight during the whole of the other
C13_Witness ==
  \E a, b \in attendance :
    /\ a.session_id = "s1" /\ b.session_id = "s1"
    /\ a.student_id # b.student_id
    /\ a.is_present /\ b.is_present
    /\ a.marked_at < b.marked_at
    /\ a.created_at > b.created_at

\* C14: a redeem whose code is no session's current token is rejected with
\* the invalid-code toast, sends nothing to the store and leaves the
\* attendance table, the sessions table and showQRScanner as they were
C14_UnknownCodeRejected ==
  [][budget'.scan # budget.scan =>
       /\ \A req \in inflight' : req.op = "upsert" => req.wasCurrent
       /\ inflight' = inflight =>
            /\ last'.result = "invalid"
            /\ UNCHANGED <<attendance, sessions, showQRScanner>>]_vars

\* C15: stop is idempotent: every stop the store executes reports success
\* and leaves is_active = false, qr_code = null, qr_expires_at = null, and
\* a stop of a session that is already inactive leaves the sessions table
\* as it was
C15_StopIdempotent ==
  [][\A req \in Answered :
       (req.op = "stop" /\ ~last'.fault) =>
         /\ last'.result = "ok"
         /\ sessions'[req.session].is_active = FALSE
         /\ sessions'[req.session].qr_code = NoToken
         /\ sessions'[req.session].qr_expires_at = NoTime
         /\ ~sessions[req.session].is_active => sessions' = sessions]_vars

\* a second stop was executed on the already stopped session and reported
\* success
C15_Witness ==
  /\ last.op = "stop"
  /\ last.result = "ok"
  /\ last.noop
  /\ cleared["s1"] # {}
  /\ sessions["s1"] = NewSession

\* C16: a session can be started and stopped repeatedly, and a token that a
\* stop has cleared or a later start has replaced never becomes the
\* session's current token again
C16_TokenNeverRevived ==
  [][\A s \in Sessions :
       sessions'[s].qr_code # sessions[s].qr_code =>
         sessions'[s].qr_code \notin (replaced[s] \cup cleared[s])]_vars

\* C17: once a row of the attendance table exists, every later step keeps
\* it and changes at most its is_present, method and marked_at: its id,
\* session_id, student_id, latitude, longitude, notes and created_at stay
C17_RecordFrame ==
  [][\A r \in attendance :
       \E n \in attendance' :
         /\ n.id = r.id
         /\ n.session_id = r.session_id
         /\ n.student_id = r.student_id
         /\ n.latitude = r.latitude
         /\ n.longitude = r.longitude
         /\ n.notes = r.notes
         /\ n.created_at = r.created_at]_vars

\* a row was overridden after its creation and its student then made a
\* repeat redeem, which the store rejected
C17_Witness ==
  \E r \in attendance :
    /\ r.method = "manual"
    /\ r.marked_at > r.created_at
    /\ last.op = "upsert"
    /\ last.caller = r.student_id
    /\ last.result = "error"
    /\ ~last.fault

C19_RedeemWritesOwnRowOnly ==
  [][\A req \in Answered :
       req.op = "upsert" =>
         /\ \A n \in attendance' \ attendance : n.student_id = req.caller
         /\ \A r \in attendance :
              r.student_id # req.caller => r \in attendance']_vars

\* u2 redeemed successfully while u1's row was stored; both rows are rows of
\* a qr redeem
C19_Witness ==
  /\ last.op = "upsert"
  /\ last.result = "ok"
  /\ last.caller = "u2"
  /\ \E r \in attendance : r.student_id = "u1" /\ r.method = "qr"
  /\ \E r \in attendance : r.student_id = "u2" /\ r.method = "qr"

\* C20: present_count of a session never decreases, whatever start, stop,
\* redeem or manual override is executed
C20_PresentCountMonotonic ==
  [][\A s \in Sessions :
       sessions'[s].present_count >= sessions[s].present_count]_vars

\* an override has marked a student absent and a stop has been executed;
\* present_count is what it was
C20_Witness ==
  /\ \E r \in attendance : r.method = "manual" /\ ~r.is_present
  /\ cleared["s1"] # {}
  /\ sessions["s1"].present_count = NewSession.present_count

\* C21: a store write of startSession, stopSession, handleQRScan or
\* toggleAttendance that fails (the store is unreachable, or it rejects the
\* row) ends with the failure toast and leaves the sessions and attendance
\* tables as they were; a request is sent only by a handler call, one per
\* call, and none is sent again when it is answered
C21_WriteFailureReported ==
  [][/\ \A req \in Answered :
          /\ last'.op = req.op
          /\ last'.fault => last'.result = "error"
          /\ (/\ req.op = "upsert"
              /\ PairRows(attendance, req.session, req.caller) # {}) =>
               last'.result = "error"
          /\ last'.result = "error" =>
               /\ sessions' = sessions
               /\ attendance' = attendance
     /\ Cardinality(inflight') <= Cardinality(inflight) + 1
     /\ Cardinality(inflight') > Cardinality(inflight) => budget' # budget
     /\ Cardinality(inflight') <= Cardinality(inflight) =>
          \/ inflight' = inflight
          \/ /\ Cardinality(inflight') < Cardinality(inflight)
             /\ inflight' \subseteq inflight]_vars

\* the store failed on a stop: the teacher got the failure toast, the
\* session is still active with its token and nothing is in flight
C21_Witness ==
  /\ last.op = "stop"
  /\ last.result = "error"
  /\ last.fault
  /\ sessions["s1"].is_active
  /\ sessions["s1"].qr_code # NoToken
  /\ inflight = {}

\* C22: a start, a stop or a manual override whose update matches no stored
\* row (the row was deleted after the caller's list was fetched) does not
\* end with the success toast
C22_UnknownTargetReported ==
  [][\A req \in Answered :
       /\ (req.op = "toggle" /\ \A r \in attendance : r.id # req.rid) =>
            last'.result # "ok"
       /\ (req.op \in {"start", "stop"} /\ req.session \notin Sessions) =>
            last'.result # "ok"]_vars

\* C23: every start called at time t stores the expiry t + 30 minutes, which
\* is later than the issue time of the token stored with it
C23_ExpiryIsIssuePlusTtl ==
  [][\A req \in Answered :
       (req.op = "start" /\ last'.result = "ok") =>
         /\ sessions'[req.session].qr_expires_at = req.at + QR_VALID_MINUTES
         /\ sessions'[req.session].qr_expires_at >
              sessions'[req.session].qr_code[1]]_vars

\* C27: a successful redeem writes an attendance row only for a session
\* that is dated today when the student redeems and that belongs to a class
\* the student is enrolled in
C27_RedeemOnlyTodayEnrolled ==
  [][\A req \in Answered :
       (req.op = "upsert" /\ last'.result = "ok") =>
         \A n \in attendance' \ attendance :
           /\ session_date[n.session_id] = Today(req.at)
           /\ <<class_id[n.session_id], n.student_id>> \in
                class_enrollments]_vars

\* C25: in every state reached from a new session by starts and stops,
\* is_active is true exactly when qr_code is not null
C25_ActiveIffToken ==
  \A s \in Sessions :
    sessions[s].is_active <=> (sessions[s].qr_code # NoToken)

\* s1 was started, stopped, started again and stopped again: it is inactive
\* without a token after two tokens were cleared
C25_Witness ==
  /\ last.op = "stop"
  /\ last.result = "ok"
  /\ Cardinality(cleared["s1"]) = 2
  /\ ~sessions["s1"].is_active
  /\ sessions["s1"].qr_code = NoToken

\* C26: whenever the teacher's QR modal is shown for a session, the code it
\* displays is that session's current token in the store, also after a
\* start or a stop of the session has completed
C26_ModalShowsCurrentToken ==
  \A t \in Teachers :
    DisplayedCode(t) # NoToken =>
      DisplayedCode(t) = sessions[selectedSession[t].session].qr_code

\* C24: the role dispatch of Dashboard is total: profile role 'student'
\* renders StudentDashboard, 'teacher' TeacherDashboard, 'admin' and
\* 'counselor' AdminDashboard, and a missing or unrecognised role
\* StudentDashboard; every render yields one of the three dashboards
C24_RoleDispatchTotal ==
  dashboard # NoDashboard =>
    /\ dashboard \in {"StudentDashboard", "TeacherDashboard",
                       "AdminDashboard"}
    /\ (profile.present /\ profile.role = "student") <=>
          (dashboard = "StudentDashboard" /\ profile.role \in Roles)
    /\ (profile.present /\ profile.role = "teacher") <=>
          (dashboard = "TeacherDashboard")
    /\ (profile.present /\ profile.role \in {"admin", "counselor"}) <=>
          (dashboard = "AdminDashboard")
    /\ (~profile.present \/ profile.role \notin Roles) =>
          dashboard = "StudentDashboard"

\* a counselor's page has rendered the AdminDashboard and it has loaded
C24_Witness ==
  /\ profile.present
  /\ profile.role = "counselor"
  /\ dashboard = "AdminDashboard"
  /\ ~loading

\* C28: a suggestion whose completion has succeeded is absent from the
\* displayed list and stays absent, also when the completions of two
\* suggestions are in flight together and are answered in either order;
\* a completion that fails leaves the displayed list as it was
C28_CompletedStaysAbsent ==
  [][/\ \A a \in Suggestions :
          activity_suggestions'[a] => a \notin suggestions'
     /\ \A req \in Answered :
          (req.op = "complete" /\ last'.result = "error") =>
            suggestions' = suggestions]_vars

\* C29: once Dashboard has rendered a role dashboard for the authenticated
\* user, the dashboard's loading state eventually becomes false, also when
\* the profile is absent and the default StudentDashboard is rendered
C29_LoadingEnds ==
  (dashboard # NoDashboard) ~> (~loading)

====
